---- MODULE Spec2Model ----
(***************************************************************************)
(* Model of the trip-planning pipeline of GlobeSync: the LangGraph         *)
(* workflow of orchestrator.py (TravelOrchestrator), the agents it calls   *)
(* (agents.py), its MemorySaver checkpointer and its MongoDB collections.  *)
(*                                                                         *)
(* A run is one call of TravelOrchestrator.plan_trip.  Every node of the   *)
(* graph is one action: the agent call, the audit write, the except        *)
(* branch, the merge of the returned update into the channels and the      *)
(* checkpoint written after the superstep.                                  *)
(***************************************************************************)
EXTENDS Naturals, Sequences, FiniteSets, Bags, TLC

\* ------------------------------------------------------------------ bounds
\* Number of plan_trip invocations of one process.
NumRuns == 2
\* Number of non-nominal steps over all runs: a step in which a database
\* write raises, or in which an agent returns a status other than "completed"
\* where "completed" was possible.
MaxFaults == 1
\* Number of websockets that connect to the chat route.
NumSockets == 3
\* Number of messages sent to one client before the clients send no more.
MaxInbox == 2

Runs == 1..NumRuns

\* ------------------------------------------------------------ the pipeline
\* workflow.add_node(...): the nine nodes in the order of the edges.
Nodes ==
    << "weather_analysis", "route_planning", "event_discovery",
       "budget_optimization", "itinerary_creation", "flight_search",
       "train_search", "calendar_sync", "trip_summary" >>

NumNodes == 9
NumAgents == 8
SummaryIdx == 9
AgentIdx == 1..NumAgents

\* NextNode with the edge of flight_search going to calendar_sync.
NextNodeSkipsTrains(i) == IF i = 6 THEN 8 ELSE IF i < NumNodes THEN i + 1 ELSE 0

\* workflow.add_edge(a, b): the single successor of each node; 0 is END.
NextNode(i) == IF i < NumNodes THEN i + 1 ELSE 0

\* agents.<x>.process: the agent each node calls, and its name.
AgentNames ==
    << "weather_agent", "maps_agent", "events_agent", "budget_agent",
       "itinerary_agent", "flights_agent", "trains_agent", "calendar_agent" >>

\* The prefix of current_step each node writes ("weather_completed", ...).
StepNames ==
    << "weather", "route", "events", "budget", "itinerary", "flights",
       "trains", "calendar" >>

\* The prefix of the error string each node writes in its except branch.
ErrorLabels ==
    << "Weather agent", "Maps agent", "Events agent", "Budget agent",
       "Itinerary agent", "Flights agent", "Trains agent", "Calendar agent" >>

\* The state key each node writes on success.
OwnedField ==
    << "weather_data", "route_details", "events_data", "budget_analysis",
       "itinerary", "flight_details", "train_details", "calendar_data" >>

\* The key of response.data each node reads: response.data.get(<key>, {}).
NodeDataKey ==
    << "weather_data", "route_details", "events", "budget_breakdown",
       "itinerary", "flight_recommendations", "train_recommendations",
       "calendar_events" >>

ScalarFields == { OwnedField[i] : i \in AgentIdx }

\* Annotated[List[...], operator.add]: the channels merged by concatenation.
ReducerKeys == { "agent_responses", "completed_agents", "errors" }

\* The keys of TravelPlanningState.
StateKeys == ScalarFields \cup ReducerKeys \cup { "trip_request", "current_step" }

\* {} as the value of a scalar field.
EmptyDict == "{}"

\* ---------------------------------------------------------------- agents
\* The keys of AgentResponse.data for each agent and status.
AgentData(i, status) ==
    IF status = "error" THEN { "error" }
    ELSE CASE i = 1 -> { "weather_data", "recommendations" }
           [] i = 2 -> { "route_details", "recommendations" }
           [] i = 3 -> { "events", "recommendations" }
           [] i = 4 -> { "budget_breakdown", "budget_options", "recommendations" }
           [] i = 5 -> { "itinerary", "itinerary_text" }
           [] i = 6 -> IF status = "skipped"
                       THEN { "message", "flights" }
                       ELSE { "flight_recommendations", "analysis", "flights_found",
                              "route", "is_flight_suitable", "origin_airport",
                              "destination_airport" }
           [] i = 7 -> IF status = "skipped"
                       THEN { "message", "trains" }
                       ELSE { "train_recommendations", "analysis", "trains_found",
                              "route", "is_train_suitable" }
           [] OTHER -> IF status = "warning"
                       THEN { "calendar_integration", "insights", "error",
                              "fallback_message" }
                       ELSE { "calendar_integration", "insights", "events_created",
                              "calendar_url", "calendar_id", "errors" }

\* AgentResponse(agent_name=self.name, status=..., data=...).
AgentResponse(i, status) ==
    [ agent_name |-> AgentNames[i], status |-> status, data |-> AgentData(i, status) ]

\* The outcomes of the external calls of agent i (its tool, the language
\* model): they return, they raise, or, for the flights and trains agents,
\* they return and the route is found unsuitable.
ToolOutcomes(i) ==
    IF i \in 6..7 THEN { "ok", "unsuitable", "raises" } ELSE { "ok", "raises" }

\* The try block of <Agent>.process: the status of the AgentResponse it
\* returns, or "raise" when an exception leaves it.  An exception of an
\* external call leaves it.  BudgetAgent multiplies trip_request.budget, a
\* Decimal, by a float, which raises TypeError.  CalendarAgent raises on an
\* empty itinerary by its guard, and on a non-empty one at
\* len(itinerary.days), the itinerary in the state being the dict made by
\* Itinerary.dict().
TryBlock(i, st, ext) ==
    CASE ext = "raises" -> "raise"
      [] i \in { 4, 8 } -> "raise"
      [] ext = "unsuitable" -> "skipped"
      [] OTHER -> "completed"

\* process with an except branch that raises the exception again.
ProcessReraises(i, st, ext) == AgentResponse(i, TryBlock(i, st, ext))

\* <Agent>.process(state): the response of the try block, or, in the branch
\* except Exception, the response with status "error".
Process(i, st, ext) ==
    AgentResponse(i, IF TryBlock(i, st, ext) = "raise" THEN "error"
                     ELSE TryBlock(i, st, ext))

\* The statuses agent i can return for the state it is given.
AgentStatuses(i, st) == { Process(i, st, ext).status : ext \in ToolOutcomes(i) }

\* response.data.get(key, {}): the value stored under a key is named by the key.
DataGet(data, key) == IF key \in data THEN key ELSE EmptyDict

\* ------------------------------------------------------------ node bodies
\* NodeSuccess without the entry of completed_agents.
NodeSuccessNoName(i, response) ==
    (OwnedField[i] :> DataGet(response.data, NodeDataKey[i]))
    @@ [ agent_responses |-> << response >>,
         current_step |-> StepNames[i] \o "_completed" ]

\* NodeSuccess with the agent's name appended twice.
NodeSuccessNamesTwice(i, response) ==
    (OwnedField[i] :> DataGet(response.data, NodeDataKey[i]))
    @@ [ agent_responses |-> << response >>,
         completed_agents |-> << AgentNames[i], AgentNames[i] >>,
         current_step |-> StepNames[i] \o "_completed" ]

\* The dict a node returns from its try block.
NodeSuccess(i, response) ==
    (OwnedField[i] :> DataGet(response.data, NodeDataKey[i]))
    @@ [ agent_responses |-> << response >>,
         completed_agents |-> << AgentNames[i] >>,
         current_step |-> StepNames[i] \o "_completed" ]

\* NodeError without the message of the exception.
NodeErrorDropsMessage(i, e) ==
    [ errors |-> << ErrorLabels[i] \o " error" >>,
      current_step |-> StepNames[i] \o "_error" ]

\* NodeError marking the stage completed as well.
NodeErrorCompletes(i, e) ==
    [ errors |-> << ErrorLabels[i] \o " error: " \o e >>,
      completed_agents |-> << AgentNames[i] >>,
      current_step |-> StepNames[i] \o "_error" ]

\* The dict a node returns from its except branch; e is str(e).
NodeError(i, e) ==
    [ errors |-> << ErrorLabels[i] \o " error: " \o e >>,
      current_step |-> StepNames[i] \o "_error" ]

\* The summary dict _summary_node builds from the state.
Summary(st) ==
    [ trip_overview |-> st["trip_request"],
      weather_summary |-> st["weather_data"],
      route_summary |-> st["route_details"],
      events_summary |-> st["events_data"],
      budget_summary |-> st["budget_analysis"],
      itinerary_summary |-> st["itinerary"],
      flight_summary |-> st["flight_details"],
      train_summary |-> st["train_details"],
      calendar_summary |-> st["calendar_data"],
      agent_count |-> Len(st["agent_responses"]),
      completed_agents |-> st["completed_agents"],
      status |-> "completed" ]

\* SummarySuccess recording the summary among the responses.
SummarySuccessRecorded(st) ==
    [ trip_summary |-> Summary(st),
      agent_responses |-> << [ agent_name |-> "summary", status |-> "completed",
                               data |-> { "trip_summary" } ] >>,
      current_step |-> "completed",
      final_status |-> "success" ]

\* The dict _summary_node returns from its try block.
SummarySuccess(st) ==
    [ trip_summary |-> Summary(st),
      current_step |-> "completed",
      final_status |-> "success" ]

\* SummaryError leaving current_step at "completed".
SummaryErrorReportsCompleted(e) ==
    [ errors |-> << "Summary generation error: " \o e >>,
      current_step |-> "completed",
      final_status |-> "error" ]

\* The dict _summary_node returns from its except branch.
SummaryError(e) ==
    [ errors |-> << "Summary generation error: " \o e >>,
      current_step |-> "summary_error",
      final_status |-> "error" ]

\* ------------------------------------------------------------- the graph
\* ApplyUpdate putting the new entries of a reducer channel first.
ApplyUpdatePrepends(st, upd) ==
    [ k \in DOMAIN st |->
        IF k \in DOMAIN upd
        THEN IF k \in ReducerKeys THEN upd[k] \o st[k] ELSE upd[k]
        ELSE st[k] ]

\* ApplyUpdate writing every channel over, the reducer channels included.
ApplyUpdateOverwrites(st, upd) ==
    [ k \in DOMAIN st |-> IF k \in DOMAIN upd THEN upd[k] ELSE st[k] ]

\* The channel writes of one superstep: keys outside the state schema are
\* dropped, reducer channels are concatenated, the others overwritten.
ApplyUpdate(st, upd) ==
    [ k \in DOMAIN st |->
        IF k \in DOMAIN upd
        THEN IF k \in ReducerKeys THEN st[k] \o upd[k] ELSE upd[k]
        ELSE st[k] ]

\* The request of run r (one TripRequest object per call).
Request(r) == << "request", r >>

\* initial_state of plan_trip.
InitialState(request) ==
    [ k \in StateKeys |->
        CASE k = "trip_request" -> request
          [] k = "current_step" -> "starting"
          [] k \in ReducerKeys -> << >>
          [] OTHER -> EmptyDict ]

\* thread_id: str = None; None is the omitted argument.
None == "None"
ThreadArgs == { "A", "B", None }
DefaultThread == "default-thread"

\* ThreadIdOf ignoring the argument.
ThreadIdOfIgnoresArg(arg) == DefaultThread

\* thread_id or "default-thread".
ThreadIdOf(arg) == IF arg = None THEN DefaultThread ELSE arg

\* str(e) of the exception a failing write raises.
Msgs == { "rate limited" }

VARIABLES
    pc,         \* run -> "idle", "running", "persist", "returned", "cancelled"
    targ,       \* run -> the thread_id argument of plan_trip
    thread,     \* run -> config["configurable"]["thread_id"], None before it is built
    chan,       \* run -> the channels of the run's invocation of the graph
    start,      \* run -> the channels as the input superstep left them
    nxt,        \* run -> index of the node to run next, 0 once at END
    attempted,  \* run -> the node attempts so far, in order, with their outcome
    ret,        \* run -> what plan_trip returned
    memory,     \* MemorySaver: thread id -> latest checkpoint
    db,         \* the MongoDB collections, each a bag of documents
    faults,     \* non-nominal steps so far
    trip_store,   \* api.trip_store: trip id -> the trip's entry
    active_tasks, \* api.active_tasks: the trip ids holding a task
    task,       \* trip id -> position of its background task
    cancel_point, \* trip id -> the run as task.cancel() found it
    active_connections, \* ConnectionManager: user id -> registered websocket
    ws_user,    \* websocket -> the user id of its path, None before it connects
    ws_pc,      \* websocket -> position of its websocket_endpoint call
    ws_live,    \* websocket -> the client keeps the connection open
    inbox       \* websocket -> number of messages sent to the client

\* The state of the orchestrator.
orchvars == << pc, targ, thread, chan, start, nxt, attempted, ret, memory, db, faults >>

\* The state of the chat routes.
chatvars == << active_connections, ws_user, ws_pc, ws_live, inbox >>

\* The state of the API layer; trip t is planned by run t.
apivars == << trip_store, active_tasks, task, cancel_point, chatvars >>

vars == << orchvars, apivars >>

\* A step may be non-nominal while the fault budget lasts.
CanFail == faults < MaxFaults

\* Insert writing the document twice.
InsertTwice(d, coll, doc) == [ d EXCEPT ![coll] = @ (+) SetToBag({ doc }) (+) SetToBag({ doc }) ]

\* db[coll].insert_one(doc).
Insert(d, coll, doc) == [ d EXCEPT ![coll] = @ (+) SetToBag({ doc }) ]

\* PutCheckpoint keeping the first checkpoint of a thread.
PutCheckpointKeepsFirst(mem, tid, values, next) ==
    [ t \in DOMAIN mem \cup { tid } |->
        IF t \in DOMAIN mem THEN mem[t] ELSE [ values |-> values, next |-> next ] ]

\* checkpointer.put: the latest checkpoint of a thread.
PutCheckpoint(mem, tid, values, next) ==
    [ t \in DOMAIN mem \cup { tid } |->
        IF t = tid THEN [ values |-> values, next |-> next ] ELSE mem[t] ]

\* What plan_trip hands to its caller: nothing yet, the result of ainvoke
\* ("state"), the dict {"error": e, "status": "failed"}, or an exception.
NoReturn == [ kind |-> "none", error |-> "" ]
Returned(kind, e) == [ kind |-> kind, error |-> e ]

\* One node attempt: the node, the branch it left by ("try": the try block
\* returned; "except": the except branch returned; "raised": the except
\* branch raised), the status the agent returned and str(e) of the exception.
Attempt(i, branch, status, e) ==
    [ node |-> Nodes[i], branch |-> branch, status |-> status, error |-> e ]

\* The websockets that connect to /chat/{user_id}, and the user ids.
Sockets == 1..NumSockets
Users == { "u1", "u2" }

\* No task.cancel() was called for the trip.
NotCancelled == [ called |-> FALSE ]

Init ==
    /\ pc = [ r \in Runs |-> "idle" ]
    /\ targ = [ r \in Runs |-> None ]
    /\ thread = [ r \in Runs |-> None ]
    /\ chan = [ r \in Runs |-> InitialState(Request(r)) ]
    /\ start = [ r \in Runs |-> InitialState(Request(r)) ]
    /\ nxt = [ r \in Runs |-> 0 ]
    /\ attempted = [ r \in Runs |-> << >> ]
    /\ ret = [ r \in Runs |-> NoReturn ]
    /\ memory = << >>
    /\ db = [ trip_requests |-> EmptyBag, agent_responses |-> EmptyBag,
              errors_logs |-> EmptyBag, trip_summaries |-> EmptyBag,
              orchestration_states |-> EmptyBag ]
    /\ faults = 0
    /\ trip_store = << >>
    /\ active_tasks = {}
    /\ task = [ t \in Runs |-> "none" ]
    /\ cancel_point = [ t \in Runs |-> NotCancelled ]
    /\ active_connections = << >>
    /\ ws_user = [ w \in Sockets |-> None ]
    /\ ws_pc = [ w \in Sockets |-> "none" ]
    /\ ws_live = [ w \in Sockets |-> FALSE ]
    /\ inbox = [ w \in Sockets |-> 0 ]

\* The cost of an agent status against the fault budget.
StatusCost(i, st, s) ==
    IF s = "completed" \/ Cardinality(AgentStatuses(i, st)) = 1 THEN 0 ELSE 1

\* _log_error(step, error): the document written to errors_logs.
ErrorLog(step, e) == [ step |-> step, error |-> e ]

\* _save_agent_response(response, agent_name): the document written.
AgentResponseDoc(response, agent_name) ==
    [ agent_name |-> agent_name, status |-> response.status, data |-> response.data ]

\* The except branch of plan_trip for exception e, the database being d:
\* _log_error("plan_trip", e), then the failed dict; an exception of
\* _log_error leaves plan_trip.
PlanTripExcept(r, e, d) ==
    /\ pc' = [ pc EXCEPT ![r] = "returned" ]
    /\ \/ /\ db' = Insert(d, "errors_logs", ErrorLog("plan_trip", e))
          /\ ret' = [ ret EXCEPT ![r] = Returned("failed", e) ]
       \/ /\ \E e2 \in Msgs : ret' = [ ret EXCEPT ![r] = Returned("raised", e2) ]
          /\ db' = d

\* Node i of run r raised e: the superstep writes nothing, no checkpoint is
\* put, ainvoke raises into the except branch of plan_trip.
Abort(r, i, status, e) ==
    /\ attempted' = [ attempted EXCEPT ![r] = Append(@, Attempt(i, "raised", status, e)) ]
    /\ PlanTripExcept(r, e, db)
    /\ faults' = faults + 1
    /\ UNCHANGED << targ, thread, chan, start, nxt, memory >>

\* Merge putting the checkpoint of the channels as they were before the
\* update.
MergeStaleCheckpoint(r, i, upd) ==
    LET values == ApplyUpdate(chan[r], upd) IN
    /\ chan' = [ chan EXCEPT ![r] = values ]
    /\ memory' = PutCheckpoint(memory, thread[r], chan[r], NextNode(i))
    /\ nxt' = [ nxt EXCEPT ![r] = NextNode(i) ]
    /\ pc' = [ pc EXCEPT ![r] = IF NextNode(i) = 0 THEN "persist" ELSE "running" ]
    /\ UNCHANGED << targ, thread, start, ret >>

\* Node i of run r returned upd: the update is applied to the channels, the
\* checkpoint of the superstep is put, the edge is followed.
Merge(r, i, upd) ==
    LET values == ApplyUpdate(chan[r], upd) IN
    /\ chan' = [ chan EXCEPT ![r] = values ]
    /\ memory' = PutCheckpoint(memory, thread[r], values, NextNode(i))
    /\ nxt' = [ nxt EXCEPT ![r] = NextNode(i) ]
    /\ pc' = [ pc EXCEPT ![r] = IF NextNode(i) = 0 THEN "persist" ELSE "running" ]
    /\ UNCHANGED << targ, thread, start, ret >>

\* plan_trip(request, thread_id) up to the first superstep: the request is
\* written to trip_requests, the channels are loaded from the thread's latest
\* checkpoint, the initial state is applied to them as the input and the
\* input checkpoint is put.  Runs are numbered in the order of their calls.
plan_trip(r) ==
    /\ UNCHANGED apivars
    /\ pc[r] = "idle"
    /\ \A q \in Runs : q < r => pc[q] # "idle"
    /\ \E arg \in ThreadArgs :
         LET tid == ThreadIdOf(arg)
             input == InitialState(Request(r))
             values == IF tid \in DOMAIN memory
                       THEN ApplyUpdate(memory[tid].values, input)
                       ELSE input
         IN /\ targ' = [ targ EXCEPT ![r] = arg ]
            /\ \/ /\ db' = Insert(db, "trip_requests", Request(r))
                  /\ thread' = [ thread EXCEPT ![r] = tid ]
                  /\ chan' = [ chan EXCEPT ![r] = values ]
                  /\ start' = [ start EXCEPT ![r] = values ]
                  /\ memory' = PutCheckpoint(memory, tid, values, 1)
                  /\ nxt' = [ nxt EXCEPT ![r] = 1 ]
                  /\ pc' = [ pc EXCEPT ![r] = "running" ]
                  /\ UNCHANGED << attempted, ret, faults >>
               \/ /\ CanFail
                  /\ \E e \in Msgs : PlanTripExcept(r, e, db)
                  /\ faults' = faults + 1
                  /\ UNCHANGED << thread, chan, start, nxt, attempted, memory >>

\* One agent node (_weather_node ... _calendar_node) of run r: the agent is
\* called, its response written to agent_responses and the success dict
\* returned; when the write raises, the error is written to errors_logs and
\* the error dict returned; when that write raises too, the node raises.
AgentNode(r, i) ==
    /\ UNCHANGED apivars
    /\ pc[r] = "running"
    /\ nxt[r] = i
    /\ \E s \in AgentStatuses(i, chan[r]) :
         LET response == AgentResponse(i, s)
             cost == StatusCost(i, chan[r], s)
         IN \/ /\ cost = 0 \/ CanFail
               /\ db' = Insert(db, "agent_responses",
                               AgentResponseDoc(response, AgentNames[i]))
               /\ Merge(r, i, NodeSuccess(i, response))
               /\ attempted' = [ attempted EXCEPT ![r] = Append(@, Attempt(i, "try", s, "")) ]
               /\ faults' = faults + cost
            \/ /\ CanFail
               /\ \E e \in Msgs :
                    \/ /\ db' = Insert(db, "errors_logs", ErrorLog(AgentNames[i], e))
                       /\ Merge(r, i, NodeError(i, e))
                       /\ attempted' = [ attempted EXCEPT ![r] =
                                           Append(@, Attempt(i, "except", s, e)) ]
                       /\ faults' = faults + 1
                    \/ Abort(r, i, s, e)

weather_node(r) == AgentNode(r, 1)
route_node(r) == AgentNode(r, 2)
events_node(r) == AgentNode(r, 3)
budget_node(r) == AgentNode(r, 4)
itinerary_node(r) == AgentNode(r, 5)
flights_node(r) == AgentNode(r, 6)
trains_node(r) == AgentNode(r, 7)
calendar_node(r) == AgentNode(r, 8)

\* _summary_node of run r.
summary_node(r) ==
    /\ UNCHANGED apivars
    /\ pc[r] = "running"
    /\ nxt[r] = SummaryIdx
    /\ \/ /\ db' = Insert(db, "trip_summaries", Summary(chan[r]))
          /\ Merge(r, SummaryIdx, SummarySuccess(chan[r]))
          /\ attempted' = [ attempted EXCEPT ![r] =
                              Append(@, Attempt(SummaryIdx, "try", "", "")) ]
          /\ UNCHANGED faults
       \/ /\ CanFail
          /\ \E e \in Msgs :
               \/ /\ db' = Insert(db, "errors_logs", ErrorLog("summary_node", e))
                  /\ Merge(r, SummaryIdx, SummaryError(e))
                  /\ attempted' = [ attempted EXCEPT ![r] =
                                      Append(@, Attempt(SummaryIdx, "except", "", e)) ]
                  /\ faults' = faults + 1
               \/ Abort(r, SummaryIdx, "", e)

\* plan_trip after ainvoke returned: the result is written to
\* orchestration_states and returned.
save_orchestration_state(r) ==
    /\ UNCHANGED apivars
    /\ pc[r] = "persist"
    /\ \/ /\ db' = Insert(db, "orchestration_states",
                          [ thread_id |-> thread[r], state |-> chan[r] ])
          /\ ret' = [ ret EXCEPT ![r] = Returned("state", "") ]
          /\ pc' = [ pc EXCEPT ![r] = "returned" ]
          /\ UNCHANGED faults
       \/ /\ CanFail
          /\ \E e \in Msgs : PlanTripExcept(r, e, db)
          /\ faults' = faults + 1
    /\ UNCHANGED << targ, thread, chan, start, nxt, attempted, memory >>

\* get_workflow_state naming the entry point as the next node of a thread
\* whose graph reached END.
get_workflow_state_restarts(tid) ==
    IF tid \in DOMAIN memory
    THEN [ current_state |-> memory[tid].values,
           next_actions |-> << Nodes[IF memory[tid].next = 0 THEN 1
                                      ELSE memory[tid].next] >> ]
    ELSE [ current_state |-> << >>, next_actions |-> << >> ]

\* get_workflow_state(thread_id): the latest checkpoint of the thread; a
\* thread without a checkpoint has no values and no next node.
get_workflow_state(tid) ==
    IF tid \in DOMAIN memory
    THEN [ current_state |-> memory[tid].values,
           next_actions |-> IF memory[tid].next = 0 THEN << >>
                            ELSE << Nodes[memory[tid].next] >> ]
    ELSE [ current_state |-> << >>, next_actions |-> << >> ]

Next ==
    \E r \in Runs :
        \/ plan_trip(r)
        \/ weather_node(r)
        \/ route_node(r)
        \/ events_node(r)
        \/ budget_node(r)
        \/ itinerary_node(r)
        \/ flights_node(r)
        \/ trains_node(r)
        \/ calendar_node(r)
        \/ summary_node(r)
        \/ save_orchestration_state(r)

Spec == Init /\ [][Next]_vars

\* ----------------------------------------------------------- properties
Last(s) == s[Len(s)]

\* The initial state of run r was built and the graph invoked.
Started(r) == thread[r] # None

\* plan_trip of run r is over.
Over(r) == pc[r] = "returned"

\* The graph of run r reached END.
GraphDone(r) == Started(r) /\ nxt[r] = 0 /\ pc[r] \in { "persist", "returned" }

\* The nodes run r invoked, in order.
AttemptedNodes(r) == [ j \in 1..Len(attempted[r]) |-> attempted[r][j].node ]

\* The entries run r itself appended to the list channel k.
Added(r, k) == SubSeq(chan[r][k], Len(start[r][k]) + 1, Len(chan[r][k]))

\* Run r takes a step in which node i leaves by the given branch.
Leaves(r, i, branch) ==
    /\ pc[r] = "running"
    /\ nxt[r] = i
    /\ Len(attempted'[r]) = Len(attempted[r]) + 1
    /\ Last(attempted'[r]).branch = branch

\* C1: a run whose initial state was built and whose plan_trip is over has
\* attempted the stage after every stage that threw, and has attempted the
\* summary stage.
C1_NonHalting ==
    \A r \in Runs :
        (Started(r) /\ Over(r)) =>
            /\ \A j \in 1..Len(attempted[r]) :
                 (attempted[r][j].branch # "try" /\ j < NumNodes) => Len(attempted[r]) > j
            /\ \E j \in 1..Len(attempted[r]) : attempted[r][j].node = Nodes[SummaryIdx]

\* C2: the nodes a run has invoked are at every moment the first nodes of the
\* pipeline, each once and in pipeline order, and a run whose plan_trip is
\* over has invoked all nine, the summary last.
C2_EveryStageOnceInOrder ==
    \A r \in Runs :
        /\ Len(attempted[r]) <= NumNodes
        /\ AttemptedNodes(r) = SubSeq(Nodes, 1, Len(attempted[r]))
        /\ (Started(r) /\ Over(r)) => AttemptedNodes(r) = Nodes

\* C3: an attempt that ends in a thrown error (the node leaves by its except
\* branch, returning or raising) changes no channel other than errors and
\* current_step: the owned scalar field, agent_responses, completed_agents
\* and every other field are as before the attempt.
C3_ErrorFrame ==
    [][ \A r \in Runs : \A i \in 1..NumNodes :
          (Leaves(r, i, "except") \/ Leaves(r, i, "raised")) =>
              \A k \in StateKeys \ { "errors", "current_step" } :
                  chan'[r][k] = chan[r][k] ]_vars

\* C3 witness: a stage of some run left by its except branch and recorded
\* its error.
C3_Witness ==
    \E r \in Runs :
        /\ Len(attempted[r]) > 0
        /\ Last(attempted[r]).branch = "except"
        /\ Len(Added(r, "errors")) = 1
        /\ Len(Added(r, "completed_agents")) = Len(attempted[r]) - 1

\* The stage names of the pipeline as the specification gives them.
StageNames ==
    << "weather", "route", "events", "budget", "itinerary", "flights",
       "trains", "calendar", "summary" >>

\* The error string of stage j for message e as the specification gives it.
ClaimedErrorText(j, e) == StageNames[j] \o " error: " \o e

\* The error string of stage j for message e as the code writes it.
ErrorText(j, e) ==
    << "Weather agent error: ", "Maps agent error: ", "Events agent error: ",
       "Budget agent error: ", "Itinerary agent error: ", "Flights agent error: ",
       "Trains agent error: ", "Calendar agent error: ",
       "Summary generation error: " >>[j] \o e

\* The strings ClaimedErrorText gives for the first n attempts that threw.
RECURSIVE ClaimedErrors(_, _)
ClaimedErrors(att, n) ==
    IF n = 0 THEN << >>
    ELSE IF att[n].branch # "try"
         THEN Append(ClaimedErrors(att, n - 1), ClaimedErrorText(n, att[n].error))
         ELSE ClaimedErrors(att, n - 1)

\* The strings ErrorText gives for those of the first n attempts whose except
\* branch returned.
RECURSIVE RecordedErrors(_, _)
RecordedErrors(att, n) ==
    IF n = 0 THEN << >>
    ELSE IF att[n].branch = "except"
         THEN Append(RecordedErrors(att, n - 1), ErrorText(n, att[n].error))
         ELSE RecordedErrors(att, n - 1)

\* Only the weather stage of run r threw, with message e, and the graph
\* reached END.
OnlyWeatherThrew(r, e) ==
    /\ GraphDone(r)
    /\ attempted[r][1].branch = "except"
    /\ attempted[r][1].error = e
    /\ \A j \in 2..Len(attempted[r]) : attempted[r][j].branch = "try"

\* C4 as stated: every attempt that threw with message M appended exactly
\* "<stage> error: <M>" and set current_step to "<stage>_error"; with only
\* weather throwing "rate limited" the run ends with that one error, an empty
\* weather_data and the 8 other stage names completed.
C4_AsStated ==
    \A r \in Runs :
        Started(r) =>
            /\ Added(r, "errors") = ClaimedErrors(attempted[r], Len(attempted[r]))
            /\ (Len(attempted[r]) > 0 /\ Last(attempted[r]).branch # "try") =>
                   chan[r]["current_step"] = StageNames[Len(attempted[r])] \o "_error"
            /\ OnlyWeatherThrew(r, "rate limited") =>
                   /\ chan[r]["errors"] = << "weather error: rate limited" >>
                   /\ chan[r]["weather_data"] = EmptyDict
                   /\ Len(chan[r]["completed_agents"]) = NumNodes - 1

\* C4 amended: every attempt whose except branch returned appended exactly
\* "<Label> agent error: <M>" ("Summary generation error: <M>" for summary)
\* and set current_step to "<stage>_error"; an attempt whose except branch
\* raised appended nothing and ended the run; with only weather throwing
\* "rate limited" the run added "Weather agent error: rate limited" alone,
\* weather_data is empty and the run added the 7 other agent names to
\* completed_agents.
C4_ErrorRecord ==
    \A r \in Runs :
        Started(r) =>
            /\ Added(r, "errors") = RecordedErrors(attempted[r], Len(attempted[r]))
            /\ (Len(attempted[r]) > 0 /\ Last(attempted[r]).branch = "except") =>
                   chan[r]["current_step"] = StageNames[Len(attempted[r])] \o "_error"
            /\ (Len(attempted[r]) > 0 /\ Last(attempted[r]).branch = "raised") =>
                   /\ Over(r)
                   /\ ret[r].kind \in { "failed", "raised" }
            /\ OnlyWeatherThrew(r, "rate limited") =>
                   /\ Added(r, "errors") = << "Weather agent error: rate limited" >>
                   /\ chan[r]["weather_data"] = EmptyDict
                   /\ Added(r, "completed_agents") =
                          << "maps_agent", "events_agent", "budget_agent",
                             "itinerary_agent", "flights_agent", "trains_agent",
                             "calendar_agent" >>

\* C4 witness: a run in which only the weather stage threw "rate limited"
\* has reached END.
C4_Witness == \E r \in Runs : OnlyWeatherThrew(r, "rate limited")

C6_CompletedOnlyOnSuccess ==
    \A r \in Runs : \A j \in 1..Len(attempted[r]) :
        (j \in AgentIdx /\ attempted[r][j].status = "error") =>
            /\ \A n \in 1..Len(Added(r, "completed_agents")) :
                 Added(r, "completed_agents")[n] # AgentNames[j]
            /\ j = Len(attempted[r]) =>
                 chan[r]["current_step"] # StageNames[j] \o "_completed"

\* The number of the first n attempts that left by the given branch.
RECURSIVE CountBranch(_, _, _)
CountBranch(att, n, branch) ==
    IF n = 0 THEN 0
    ELSE CountBranch(att, n - 1, branch) + (IF att[n].branch = branch THEN 1 ELSE 0)

\* C7 as stated: at END the two lists hold nine records together.
C7_AsStated ==
    \A r \in Runs :
        GraphDone(r) =>
            Len(chan[r]["agent_responses"]) + Len(chan[r]["errors"]) = NumNodes

\* C7 amended: at END the run has added eight records to agent_responses and
\* errors together when the summary stage succeeded and nine when it failed:
\* one response for each agent stage that left by its try block, one error
\* for each stage whose except branch returned, none for a summary that
\* succeeded.
C7_StageCount ==
    \A r \in Runs :
        GraphDone(r) =>
            /\ Len(Added(r, "agent_responses")) =
                   CountBranch(attempted[r], NumAgents, "try")
            /\ Len(Added(r, "errors")) = CountBranch(attempted[r], NumNodes, "except")
            /\ Len(Added(r, "agent_responses")) + Len(Added(r, "errors")) =
                   IF attempted[r][SummaryIdx].branch = "try" THEN NumAgents ELSE NumNodes

\* C7 witness: a run reached END through a failing summary stage, with nine
\* records added.
C7_Witness ==
    \E r \in Runs :
        /\ GraphDone(r)
        /\ attempted[r][SummaryIdx].branch = "except"
        /\ Len(Added(r, "agent_responses")) + Len(Added(r, "errors")) = NumNodes

\* Every stage of run r left by its try block and the graph reached END.
AllSucceeded(r) ==
    /\ GraphDone(r)
    /\ \A j \in 1..Len(attempted[r]) : attempted[r][j].branch = "try"

\* C8 as stated: when all nine stages succeed (no agent that can complete
\* reports anything else), completed_agents has nine entries, errors is empty
\* and the status is completed.
C8_AsStated ==
    \A r \in Runs :
        ( /\ AllSucceeded(r)
          /\ \A j \in AgentIdx :
                 "completed" \in AgentStatuses(j, start[r]) =>
                     attempted[r][j].status = "completed" ) =>
            /\ Len(chan[r]["completed_agents"]) = NumNodes
            /\ chan[r]["errors"] = << >>
            /\ chan[r]["current_step"] = "completed"

\* C8 amended: when all nine stages succeed, the run has added the eight
\* agent names to completed_agents in pipeline order (the summary stage adds
\* none), has added no error, and current_step is "completed".
C8_AllSucceed ==
    \A r \in Runs :
        AllSucceeded(r) =>
            /\ Added(r, "completed_agents") =
                   << "weather_agent", "maps_agent", "events_agent", "budget_agent",
                      "itinerary_agent", "flights_agent", "trains_agent",
                      "calendar_agent" >>
            /\ Added(r, "errors") = << >>
            /\ chan[r]["current_step"] = "completed"

\* C8 witness: a run whose nine stages all succeeded has returned its state.
C8_Witness ==
    \E r \in Runs :
        /\ AllSucceeded(r)
        /\ ret[r].kind = "state"
        /\ \A j \in 1..3 : attempted[r][j].status = "completed"

\* C9: a run that was given a thread id no other run was given has its
\* state to itself: it started from its own initial state, the checkpoint
\* under its thread id is the state of its own channels, and
\* get_workflow_state returns its own request.
C9_Isolation ==
    \A r \in Runs :
        ( /\ Started(r)
          /\ targ[r] # None
          /\ \A q \in Runs \ { r } : pc[q] # "idle" => targ[q] # targ[r] ) =>
            /\ start[r] = InitialState(Request(r))
            /\ targ[r] \in DOMAIN memory
            /\ memory[targ[r]].values = chan[r]
            /\ get_workflow_state(targ[r]).current_state["trip_request"] = Request(r)

\* C9 witness: two runs with the thread ids "A" and "B" have both finished,
\* one with a recorded error and one without.
C9_Witness ==
    \E r, q \in Runs :
        /\ targ[r] = "A" /\ targ[q] = "B"
        /\ GraphDone(r) /\ GraphDone(q)
        /\ Over(r) /\ Over(q)
        /\ Len(chan[r]["errors"]) = 1
        /\ Len(chan[q]["errors"]) = 0

\* C10: two runs that both omitted the thread id run under distinct thread
\* ids.
C10_DistinctIds ==
    \A r, q \in Runs :
        ( /\ r # q
          /\ Started(r) /\ Started(q)
          /\ targ[r] = None /\ targ[q] = None ) =>
            thread[r] # thread[q]

\* plan_trip of run r returned the result of ainvoke.
Completed(r) == Over(r) /\ ret[r].kind = "state"

\* C11: a run given a thread id, called when every earlier call of plan_trip
\* has completed, enters its first stage with empty agent_responses,
\* completed_agents and errors and with every scalar field at its initial
\* empty value, whatever ran before under the same thread id.
C11_StartsEmpty ==
    \A r \in Runs :
        ( /\ Started(r)
          /\ targ[r] # None
          /\ \A q \in Runs : q < r => Completed(q) ) =>
            /\ \A k \in ReducerKeys : start[r][k] = << >>
            /\ \A k \in ScalarFields : start[r][k] = EmptyDict

\* The run whose superstep put the latest checkpoint of thread tid: the
\* checkpoint holds the trip_request of the input of that run.
LastWriter(tid) == memory[tid].values["trip_request"][2]

C13_AsStated ==
    \A r \in Runs :
        (Completed(r) /\ targ[r] # None) =>
            get_workflow_state(thread[r]).next_actions = << >>

\* C13 amended: after a run has completed, and for as long as no other run
\* has written to its thread since, get_workflow_state of its thread id
\* returns no next action.
C13_NoNextAfterEnd ==
    \A r \in Runs :
        ( /\ Completed(r)
          /\ LastWriter(thread[r]) = r ) =>
            get_workflow_state(thread[r]).next_actions = << >>

\* C13 witness: a run has completed under a thread id another run used
\* before it, and its checkpoint is the latest of the thread.
C13_Witness ==
    \E r, q \in Runs :
        /\ q < r
        /\ Completed(q) /\ Completed(r)
        /\ thread[q] = thread[r]
        /\ LastWriter(thread[r]) = r

\* The number of attempts of run r whose update was merged: the node left
\* by its try block or its except branch returned.
MergedCount(r) ==
    Cardinality({ j \in 1..Len(attempted[r]) : attempted[r][j].branch # "raised" })

\* C14 as stated: at any point of a run given a thread id no other run was
\* given, next_actions lists every stage after the last attempted one, in
\* pipeline order, and current_state is the state as merged after the last
\* attempted stage.
C14_AsStated ==
    \A r \in Runs :
        ( /\ Started(r)
          /\ targ[r] # None
          /\ \A q \in Runs \ { r } : pc[q] # "idle" => targ[q] # targ[r] ) =>
            /\ get_workflow_state(thread[r]).next_actions =
                   SubSeq(Nodes, Len(attempted[r]) + 1, NumNodes)
            /\ get_workflow_state(thread[r]).current_state = chan[r]

\* C14 amended: at any point of a run, for as long as no other run has
\* written to its thread since, next_actions holds one stage, the stage after
\* the last one whose update was merged (the first stage before any was, the
\* stage that raised when a stage's exception left the graph), and is empty
\* once the update of the summary stage was merged; current_state is the
\* state as merged after the last merged stage.
C14_NextIsOneStage ==
    \A r \in Runs :
        ( /\ Started(r)
          /\ LastWriter(thread[r]) = r ) =>
            /\ get_workflow_state(thread[r]).next_actions =
                   IF MergedCount(r) = NumNodes THEN << >>
                   ELSE << Nodes[MergedCount(r) + 1] >>
            /\ get_workflow_state(thread[r]).current_state = chan[r]

\* C14 witness: a run is between two stages, three stages merged, one of
\* them by its except branch.
C14_Witness ==
    \E r \in Runs :
        /\ pc[r] = "running"
        /\ LastWriter(thread[r]) = r
        /\ MergedCount(r) = 3
        /\ Len(Added(r, "errors")) = 1
        /\ get_workflow_state(thread[r]).next_actions = << Nodes[4] >>

\* return result: the dict plan_trip returns when ainvoke and the write of
\* the orchestration state succeeded, the channel values at END.
PlanTripResult(r) == chan[r]

\* The report in the dict plan_trip returned: its "trip_summary" entry when
\* it has one, the dict itself otherwise.
Report(r) ==
    IF "trip_summary" \in DOMAIN PlanTripResult(r)
    THEN PlanTripResult(r)["trip_summary"]
    ELSE PlanTripResult(r)

\* C15: the report plan_trip returns after a successful summary stage holds
\* the total outcome count, equal to the length of agent_responses, the list
\* of completed stages, equal to completed_agents, and the status
\* "completed", next to a copy of every scalar and accumulated field.
C15_ReportReturned ==
    \A r \in Runs :
        ( /\ Completed(r)
          /\ attempted[r][SummaryIdx].branch = "try" ) =>
            /\ "agent_count" \in DOMAIN Report(r)
            /\ Report(r)["agent_count"] = Len(chan[r]["agent_responses"])
            /\ "completed_agents" \in DOMAIN Report(r)
            /\ Report(r)["completed_agents"] = chan[r]["completed_agents"]
            /\ "status" \in DOMAIN Report(r)
            /\ Report(r)["status"] = "completed"

\* The try block of some stage of run r raised.
SomeStageThrew(r) == \E j \in 1..Len(attempted[r]) : attempted[r][j].branch # "try"

C17_FailedOnlyBeforeStages ==
    \A r \in Runs :
        ( /\ Over(r)
          /\ ret[r].kind = "failed"
          /\ \A j \in 1..Len(attempted[r]) : attempted[r][j].branch # "raised" ) =>
            Len(attempted[r]) = 0

\* C18: a run whose graph reached END returns its computed state, also when
\* the write of the orchestration state raised.
C18_ReportSurvivesSaveFailure ==
    \A r \in Runs :
        (GraphDone(r) /\ Over(r)) => ret[r].kind = "state"

\* return {"error": str(e), "status": "failed"}.
FailedDict(e) == [ error |-> e, status |-> "failed" ]

\* The dict plan_trip of run r returned.
ReturnedDict(r) ==
    IF ret[r].kind = "state" THEN PlanTripResult(r) ELSE FailedDict(ret[r].error)

\* C19: the dict plan_trip returned holds a "final_summary" entry or an
\* "error" entry.
C19_SummaryOrError ==
    \A r \in Runs :
        (Over(r) /\ ret[r].kind \in { "state", "failed" }) =>
            \/ "final_summary" \in DOMAIN ReturnedDict(r)
            \/ "error" \in DOMAIN ReturnedDict(r)

\* The names of the weather, maps, events, budget and itinerary agents.
FiveAgents ==
    << "weather_agent", "maps_agent", "events_agent", "budget_agent",
       "itinerary_agent" >>

\* C20: for each of the five agents, for the state of every run and every
\* outcome of its external calls, process returns a response (no exception
\* leaves it) that carries the agent's own name and the status "completed"
\* or "error"; so do the responses the runs have collected.
C20_ProcessNeverRaises ==
    \A r \in Runs :
        /\ \A i \in 1..Len(FiveAgents) : \A ext \in ToolOutcomes(i) :
               /\ Process(i, chan[r], ext).agent_name = FiveAgents[i]
               /\ Process(i, chan[r], ext).status \in { "completed", "error" }
        /\ \A n \in 1..Len(chan[r]["agent_responses"]) :
               LET response == chan[r]["agent_responses"][n] IN
               (\E i \in 1..Len(FiveAgents) : response.agent_name = FiveAgents[i]) =>
                   response.status \in { "completed", "error" }
        /\ \A j \in 1..Len(attempted[r]) :
               j <= Len(FiveAgents) => attempted[r][j].status \in { "completed", "error" }

\* C20 witness: a run has called the five agents; the weather agent's tool
\* raised and it returned "error", the maps agent returned "completed", the
\* budget agent returned "error", and each response was recorded.
C20_Witness ==
    \E r \in Runs :
        /\ Len(attempted[r]) >= Len(FiveAgents)
        /\ \A j \in 1..Len(FiveAgents) : attempted[r][j].branch = "try"
        /\ attempted[r][1].status = "error"
        /\ attempted[r][2].status = "completed"
        /\ attempted[r][4].status = "error"
        /\ Len(Added(r, "agent_responses")) >= Len(FiveAgents)

\* The documents of orchestration_states that hold a state of run r.
SavedStates(r) ==
    { d \in BagToSet(db["orchestration_states"]) :
          d.state["trip_request"] = Request(r) }

ThrewCount(r) ==
    CountBranch(attempted[r], Len(attempted[r]), "except")
    + CountBranch(attempted[r], Len(attempted[r]), "raised")

\* C22 as stated: at every point of a run the number of names the run added
\* to completed_agents plus the number of its stages that threw is the
\* number of stages attempted so far, the summary stage included.
C22_AsStated ==
    \A r \in Runs :
        Started(r) =>
            Len(Added(r, "completed_agents")) + ThrewCount(r) = Len(attempted[r])

\* C22 amended: at every point of a run the number of names the run added
\* to completed_agents plus the number of its stages that threw is the
\* number of agent stages attempted so far, plus one once the summary stage
\* was attempted and threw; a summary stage that succeeded adds no name.
C22_AttemptCount ==
    \A r \in Runs :
        Started(r) =>
            Len(Added(r, "completed_agents")) + ThrewCount(r) =
                IF Len(attempted[r]) = NumNodes /\ Last(attempted[r]).branch = "try"
                THEN NumAgents
                ELSE Len(attempted[r])

\* C22 witness: a run has attempted the nine stages, one agent stage threw
\* and the summary stage succeeded.
C22_Witness ==
    \E r \in Runs :
        /\ Len(attempted[r]) = NumNodes
        /\ ThrewCount(r) = 1
        /\ Last(attempted[r]).branch = "try"
        /\ Len(Added(r, "completed_agents")) = NumAgents - 1

\* Sequence a is a prefix of sequence b.
IsPrefix(a, b) == Len(a) <= Len(b) /\ SubSeq(b, 1, Len(a)) = a

\* C23: in every step of a run that has started, agent_responses,
\* completed_agents and errors keep their value as a prefix of their new
\* value: entries are appended, none is removed, reordered or replaced.
C23_AppendOnly ==
    [][ \A r \in Runs : \A k \in ReducerKeys :
          Started(r) => IsPrefix(chan[r][k], chan'[r][k]) ]_vars

\* C23 witness: a run has appended several responses and names and one
\* error to its lists.
C23_Witness ==
    \E r \in Runs :
        /\ Len(Added(r, "agent_responses")) >= 3
        /\ Len(Added(r, "completed_agents")) >= 3
        /\ Len(Added(r, "errors")) = 1

\* The responses of those of the first n agent stages that left by their
\* try block, in pipeline order.
RECURSIVE RecordedResponses(_, _)
RecordedResponses(att, n) ==
    IF n = 0 THEN << >>
    ELSE IF att[n].branch = "try"
         THEN Append(RecordedResponses(att, n - 1), AgentResponse(n, att[n].status))
         ELSE RecordedResponses(att, n - 1)

C26_AuditFailureKeepsSuccess ==
    \A r \in Runs : \A j \in 1..Len(attempted[r]) :
        ( /\ j \in AgentIdx
          /\ attempted[r][j].status = "completed"
          /\ attempted[r][j].branch = "except" ) =>
            /\ chan[r][OwnedField[j]] =
                   DataGet(AgentResponse(j, "completed").data, NodeDataKey[j])
            /\ \E n \in 1..Len(Added(r, "agent_responses")) :
                 Added(r, "agent_responses")[n] = AgentResponse(j, "completed")
            /\ \E n \in 1..Len(Added(r, "completed_agents")) :
                 Added(r, "completed_agents")[n] = AgentNames[j]
            /\ \A n \in 1..Len(Added(r, "errors")) :
                 Added(r, "errors")[n] # ErrorText(j, attempted[r][j].error)

\* ------------------------------------------------------------ the API layer
\* The trips of the API: trip t is planned by run t of the orchestrator.
Trips == Runs

\* None as the value of "result".
NoResult == [ none |-> None ]

\* The stage in whose handler a cancellation can be caught: BudgetTool
\* awaits the route inside a try block closed by a bare except.
BudgetIdx == 4

\* Run r is suspended in a stage whose handler may catch CancelledError and
\* go on with a fallback value.
Swallows(r) == pc[r] = "running" /\ nxt[r] = BudgetIdx

\* trip_store[trip_id] = {...} of the endpoint plan_trip.
NewTrip(t) ==
    [ trip_id |-> t, status |-> "started", current_step |-> "initializing",
      completed_agents |-> << >>, trip_request |-> Request(t),
      result |-> NoResult, error |-> None, calendar_integration |-> None ]

\* result.get("completed_agents", []).
CompletedAgentsOf(result) ==
    IF "completed_agents" \in DOMAIN result THEN result["completed_agents"] ELSE << >>

\* POST /api/v1/trips/plan: the trip is entered in trip_store, its task is
\* created and entered in active_tasks.  Trip ids are handed out in order.
api_plan_trip(t) ==
    /\ t \notin DOMAIN trip_store
    /\ \A q \in Trips : q < t => q \in DOMAIN trip_store
    /\ trip_store' = [ q \in DOMAIN trip_store \cup { t } |->
                         IF q = t THEN NewTrip(t) ELSE trip_store[q] ]
    /\ active_tasks' = active_tasks \cup { t }
    /\ task' = [ task EXCEPT ![t] = "created" ]
    /\ UNCHANGED << cancel_point, chatvars >>
    /\ UNCHANGED << pc, targ, thread, chan, start, nxt, attempted, ret, memory, db, faults >>

\* process_trip_planning up to its await: the status is set and
\* orchestrator.plan_trip called.  Tasks start in the order of their creation.
process_trip_planning(t) ==
    /\ task[t] = "created"
    /\ \A q \in Trips : q < t => task[q] # "created"
    /\ trip_store' = [ trip_store EXCEPT ![t].status = "processing",
                                         ![t].current_step = "weather_analysis" ]
    /\ task' = [ task EXCEPT ![t] = "awaiting" ]
    /\ UNCHANGED << cancel_point, chatvars >>
    /\ UNCHANGED << pc, targ, thread, chan, start, nxt, attempted, ret, memory, db, faults,
                    active_tasks >>

\* orchestrator.plan_trip(trip_request) as the task of trip t calls it:
\* without a thread id.
orchestrator_plan_trip(t) ==
    /\ task[t] = "awaiting"
    /\ plan_trip(t)
    /\ targ'[t] = None

\* process_trip_planning after its await: plan_trip returned a dict, which
\* is stored with the status "completed", or raised an exception, which is
\* stored with the status "failed"; the task leaves active_tasks if it is
\* still there.
process_trip_planning_done(t) ==
    /\ task[t] = "awaiting"
    /\ pc[t] = "returned"
    /\ trip_store' =
         IF ret[t].kind = "raised"
         THEN [ trip_store EXCEPT ![t].status = "failed", ![t].error = ret[t].error ]
         ELSE [ trip_store EXCEPT ![t].status = "completed",
                                  ![t].current_step = "finished",
                                  ![t].result = ReturnedDict(t),
                                  ![t].completed_agents =
                                      CompletedAgentsOf(ReturnedDict(t)) ]
    /\ active_tasks' = active_tasks \ { t }
    /\ task' = [ task EXCEPT ![t] = "done" ]
    /\ UNCHANGED << cancel_point, chatvars >>
    /\ UNCHANGED << pc, targ, thread, chan, start, nxt, attempted, ret, memory, db, faults >>

\* DELETE /api/v1/trips/{trip_id}: the task of the trip, if it is in
\* active_tasks, is cancelled and removed; the status is set to "cancelled"
\* in every case.  asyncio raises CancelledError at the await the task is
\* suspended in, or at its start when it has not run: no except Exception
\* clause catches it and the task ends, running only its finally block,
\* unless the stage it is suspended in catches the cancellation, and then
\* the task goes on.
cancel_trip(t) ==
    /\ t \in DOMAIN trip_store
    /\ IF t \in active_tasks
       THEN /\ active_tasks' = active_tasks \ { t }
            /\ cancel_point' = [ cancel_point EXCEPT ![t] =
                                   [ called |-> TRUE, pc |-> pc[t],
                                     attempts |-> Len(attempted[t]),
                                     values |-> chan[t] ] ]
            /\ \/ /\ task' = [ task EXCEPT ![t] = "cancelled" ]
                  /\ pc' = [ pc EXCEPT ![t] = "cancelled" ]
                  /\ UNCHANGED db
               \/ /\ Swallows(t)
                  /\ UNCHANGED << task, pc, db >>
       ELSE UNCHANGED << active_tasks, task, pc, db, cancel_point >>
    /\ trip_store' = [ trip_store EXCEPT ![t].status = "cancelled" ]
    /\ UNCHANGED chatvars
    /\ UNCHANGED << targ, thread, chan, start, nxt, attempted, ret, memory, faults >>

\* trip_result.get("itinerary") of sync_trip_to_calendar is truthy.
HasItinerary(result) ==
    /\ "itinerary" \in DOMAIN result
    /\ result["itinerary"] # EmptyDict

\* POST /api/v1/trips/{trip_id}/calendar/sync: for a completed trip with an
\* itinerary the outcome of the calendar tool is stored under
\* "calendar_integration"; when the tool raises nothing is stored.
sync_trip_to_calendar(t) ==
    /\ t \in DOMAIN trip_store
    /\ trip_store[t].status = "completed"
    /\ HasItinerary(trip_store[t].result)
    /\ trip_store' = [ trip_store EXCEPT ![t].calendar_integration = "synced" ]
    /\ UNCHANGED << pc, targ, thread, chan, start, nxt, attempted, ret, memory, db, faults,
                    active_tasks, task, cancel_point, chatvars >>

\* GET /api/v1/trips/{trip_id}/status: what the endpoint answers.
get_trip_status(t) ==
    IF t \notin DOMAIN trip_store THEN [ code |-> 404 ]
    ELSE [ code |-> 200, status |-> trip_store[t].status,
           current_step |-> trip_store[t].current_step,
           completed_agents |-> trip_store[t].completed_agents,
           error_message |-> trip_store[t].error ]

\* GET /api/v1/trips/{trip_id}/result: what the endpoint answers.
get_trip_result(t) ==
    IF t \notin DOMAIN trip_store THEN [ code |-> 404 ]
    ELSE IF trip_store[t].status = "processing" THEN [ code |-> 202 ]
    ELSE IF trip_store[t].status = "failed" THEN [ code |-> 500 ]
    ELSE [ code |-> 200, status |-> trip_store[t].status,
           result |-> trip_store[t].result,
           completed_agents |-> trip_store[t].completed_agents ]

ApiNext ==
    \E t \in Trips :
        \/ api_plan_trip(t)
        \/ process_trip_planning(t)
        \/ orchestrator_plan_trip(t)
        \/ weather_node(t)
        \/ route_node(t)
        \/ events_node(t)
        \/ budget_node(t)
        \/ itinerary_node(t)
        \/ flights_node(t)
        \/ trains_node(t)
        \/ calendar_node(t)
        \/ summary_node(t)
        \/ save_orchestration_state(t)
        \/ process_trip_planning_done(t)
        \/ cancel_trip(t)
        \/ sync_trip_to_calendar(t)

ApiSpec == Init /\ [][ApiNext]_vars

\* C27: a trip whose status is "failed", or "completed" with a final
\* planning state as its result, keeps that status in every step of the
\* API: no call of cancel_trip or sync_trip_to_calendar and no step of a
\* task changes it (the status and result endpoints write nothing).
C27_FinalStatuses ==
    [][ \A t \in DOMAIN trip_store :
          ( \/ trip_store[t].status = "failed"
            \/ /\ trip_store[t].status = "completed"
               /\ DOMAIN trip_store[t].result = StateKeys ) =>
              trip_store'[t].status = trip_store[t].status ]_vars

\* C28: a trip has the status "completed" only if its stored result is a
\* final planning state, a dict of the keys of TravelPlanningState; a trip
\* whose call of orchestrator.plan_trip returned the failed dict does not
\* have the status "completed".
C28_CompletedHasFinalState ==
    \A t \in DOMAIN trip_store :
        /\ trip_store[t].status = "completed" =>
               DOMAIN trip_store[t].result = StateKeys
        /\ (task[t] = "done" /\ ret[t].kind = "failed") =>
               trip_store[t].status # "completed"

\* C29: once cancel_trip has cancelled the task of a trip, the trip has the
\* status "cancelled" and no result, and its id is not in active_tasks, in
\* every later state; stated for the executions in which no call fails.
C29_StaysCancelled ==
    \A t \in DOMAIN trip_store :
        (cancel_point[t].called /\ faults = 0) =>
            /\ trip_store[t].status = "cancelled"
            /\ trip_store[t].result = NoResult
            /\ t \notin active_tasks

\* C25: once the task of a run that has started was cancelled, the run
\* attempts no further stage, and for as long as no other run has written
\* to its thread the state get_workflow_state returns for the thread is the
\* state as merged after the last stage merged before the cancellation;
\* stated for the executions in which no call fails.
C25_CancelLeavesLastMerged ==
    \A t \in Trips :
        (cancel_point[t].called /\ Started(t) /\ faults = 0) =>
            /\ Len(attempted[t]) = cancel_point[t].attempts
            /\ chan[t] = cancel_point[t].values
            /\ LastWriter(thread[t]) = t =>
                   get_workflow_state(thread[t]).current_state = cancel_point[t].values

\* ----------------------------------------------------------- the chat routes
\* ConnectionManager.disconnect(user_id): the entry of the user is deleted,
\* whichever websocket it holds.
disconnect(conns, user_id) ==
    [ u \in DOMAIN conns \ { user_id } |-> conns[u] ]

\* ConnectionManager.send_message(user_id, message): the message goes to the
\* websocket registered for the user, if any; when send_json raises, the
\* client being gone, the user is disconnected.
send_message(user_id) ==
    IF user_id \notin DOMAIN active_connections
    THEN UNCHANGED << active_connections, inbox >>
    ELSE IF ws_live[active_connections[user_id]]
         THEN /\ inbox' = [ inbox EXCEPT ![active_connections[user_id]] = @ + 1 ]
              /\ UNCHANGED active_connections
         ELSE /\ active_connections' = disconnect(active_connections, user_id)
              /\ UNCHANGED inbox

\* websocket_endpoint up to its first receive: connect(websocket, user_id)
\* accepts the websocket and registers it under the user id.  Websockets
\* are numbered in the order in which they connect.
connect(w, user_id) ==
    /\ ws_pc[w] = "none"
    /\ \A v \in Sockets : v < w => ws_pc[v] # "none"
    /\ active_connections' = [ u \in DOMAIN active_connections \cup { user_id } |->
                                 IF u = user_id THEN w ELSE active_connections[u] ]
    /\ ws_user' = [ ws_user EXCEPT ![w] = user_id ]
    /\ ws_pc' = [ ws_pc EXCEPT ![w] = "receiving" ]
    /\ ws_live' = [ ws_live EXCEPT ![w] = TRUE ]
    /\ UNCHANGED << inbox, orchvars, trip_store, active_tasks, task, cancel_point >>

\* The loop of websocket_endpoint from receive_json to the call of
\* process_user_message: a message of the client arrives and the typing
\* indicator is sent to the user.
receive_json(w) ==
    /\ ws_pc[w] = "receiving"
    /\ ws_live[w]
    /\ \A v \in Sockets : inbox[v] < MaxInbox
    /\ send_message(ws_user[w])
    /\ ws_pc' = [ ws_pc EXCEPT ![w] = "processing" ]
    /\ UNCHANGED << ws_user, ws_live, orchvars, trip_store, active_tasks, task, cancel_point >>

\* The loop of websocket_endpoint after process_user_message returned: the
\* response is sent to the user.
send_response(w) ==
    /\ ws_pc[w] = "processing"
    /\ send_message(ws_user[w])
    /\ ws_pc' = [ ws_pc EXCEPT ![w] = "receiving" ]
    /\ UNCHANGED << ws_user, ws_live, orchvars, trip_store, active_tasks, task, cancel_point >>

\* The client of websocket w closes the connection.
client_close(w) ==
    /\ ws_pc[w] \in { "receiving", "processing" }
    /\ ws_live[w]
    /\ ws_live' = [ ws_live EXCEPT ![w] = FALSE ]
    /\ UNCHANGED << active_connections, ws_user, ws_pc, inbox,
                    orchvars, trip_store, active_tasks, task, cancel_point >>

\* except WebSocketDisconnect of websocket_endpoint: receive_json raises on
\* a connection the client closed, the user is disconnected and the handler
\* ends.
websocket_disconnect(w) ==
    /\ ws_pc[w] = "receiving"
    /\ ~ws_live[w]
    /\ active_connections' = disconnect(active_connections, ws_user[w])
    /\ ws_pc' = [ ws_pc EXCEPT ![w] = "ended" ]
    /\ UNCHANGED << ws_user, ws_live, inbox,
                    orchvars, trip_store, active_tasks, task, cancel_point >>

\* except Exception of websocket_endpoint: process_user_message raised, an
\* error message is sent to the user and the handler ends, which closes the
\* connection; the user is not disconnected.
websocket_error(w) ==
    /\ ws_pc[w] = "processing"
    /\ send_message(ws_user[w])
    /\ ws_pc' = [ ws_pc EXCEPT ![w] = "ended" ]
    /\ ws_live' = [ ws_live EXCEPT ![w] = FALSE ]
    /\ UNCHANGED << ws_user, orchvars, trip_store, active_tasks, task, cancel_point >>

\* DELETE /trip/session/{user_id}: the user is disconnected.
clear_trip_session(user_id) ==
    /\ user_id \in DOMAIN active_connections
    /\ active_connections' = disconnect(active_connections, user_id)
    /\ UNCHANGED << ws_user, ws_pc, ws_live, inbox,
                    orchvars, trip_store, active_tasks, task, cancel_point >>

ChatNext ==
    \/ \E w \in Sockets :
        \/ \E u \in Users : connect(w, u)
        \/ receive_json(w)
        \/ send_response(w)
        \/ client_close(w)
        \/ websocket_disconnect(w)
        \/ websocket_error(w)
    \/ \E u \in Users : clear_trip_session(u)

ChatSpec == Init /\ [][ChatNext]_vars

\* Websocket w is registered in active_connections.
Registered(w) ==
    /\ ws_user[w] \in DOMAIN active_connections
    /\ active_connections[ws_user[w]] = w

\* C30: when the handler of a websocket whose client closed the connection
\* disconnects its user, every other websocket that is registered and whose
\* client has not closed the connection stays registered, and a message
\* for its user still reaches it.
C30_NewerStaysRegistered ==
    [][ \A w \in Sockets :
          websocket_disconnect(w) =>
              \A v \in Sockets \ { w } :
                  (Registered(v) /\ ws_live[v]) =>
                      /\ ws_user[v] \in DOMAIN active_connections'
                      /\ active_connections'[ws_user[v]] = v ]_vars

====
